---- MODULE Spec2Model ----
(***************************************************************************)
(* Model of impactlib/load.py: load_repo_data() and the module-level       *)
(* cache cached_data.  Dicts live in a heap of objects so that the cache   *)
(* and a call's accumulator are references, as in Python.                  *)
(***************************************************************************)
EXTENDS Integers, Sequences, FiniteSets, TLC

\* ---------------------------------------------------------------- bounds
MaxCalls == 3
MaxUrls == 2

Threads == {1, 2}
URLs == {"A", "B"}
Keys == {"x", "y"}

\* ----------------------------------------------------------- JSON values
\* A JSON value is a number or an object of numbers; one record shape for both.
Num(n) == [isObj |-> FALSE, n |-> n, o |-> {}]
Obj(pairs) == [isObj |-> TRUE, n |-> 0, o |-> pairs]

\* ret = {}                                                  (load.py:17)
EmptyDict == [k \in {} |-> Num(0)]

\* cached_data = None                                        (load.py:6)
None == 0

\* The ordered URL lists config.get_repos() may return.
RepoLists == UNION {[1..n -> URLs] : n \in 0..MaxUrls}

\* A response body: the text of the payload, abstracted to whether it is
\* well-formed JSON, what its top-level value is, and the members of the
\* top-level object in textual order.
Member(k, v) == [k |-> k, v |-> v]
ObjectBody(ms) == [wellformed |-> TRUE, top |-> "object", members |-> ms]
Bodies ==
  { ObjectBody(<<Member("x", Num(1))>>),                          \* {"x": 1}
    ObjectBody(<<Member("x", Num(2)), Member("y", Num(3))>>),     \* {"x": 2, "y": 3}
    ObjectBody(<<Member("x", Obj({<<"a", 1>>}))>>),               \* {"x": {"a": 1}}
    ObjectBody(<<Member("x", Obj({<<"b", 2>>}))>>),               \* {"x": {"b": 2}}
    [wellformed |-> FALSE, top |-> "object", members |-> <<>>],   \* {not json
    [wellformed |-> TRUE, top |-> "number", members |-> <<>>] }   \* 7
NoBody == [wellformed |-> FALSE, top |-> "none", members |-> <<>>]

\* ----------------------------------------------------- pure code pieces
\* Variant: keys already present keep their value (first document wins).
dict_update_keep_first(d, data) ==
  [k \in DOMAIN d \cup DOMAIN data |-> IF k \in DOMAIN d THEN d[k] ELSE data[k]]

\* Variant: a deep merge, where two object values of one key are united.
dict_update_deep(d, data) ==
  [k \in DOMAIN d \cup DOMAIN data |->
     IF k \notin DOMAIN data THEN d[k]
     ELSE IF k \in DOMAIN d /\ d[k].isObj /\ data[k].isObj
          THEN Obj(d[k].o \cup data[k].o)
          ELSE data[k]]

\* dict.update(data): keys of data overwrite, other keys kept (load.py:26)
dict_update(d, data) ==
  [k \in DOMAIN d \cup DOMAIN data |-> IF k \in DOMAIN data THEN data[k] ELSE d[k]]

\* The dict json.loads builds from an object's members, in textual order.
RECURSIVE members_to_dict(_)
members_to_dict(ms) ==
  IF ms = <<>> THEN EmptyDict
  ELSE LET m == ms[Len(ms)]
           front == members_to_dict(SubSeq(ms, 1, Len(ms) - 1))
       IN [k \in DOMAIN front \cup {m.k} |-> IF k = m.k THEN m.v ELSE front[k]]

\* json.loads(response.read())                               (load.py:25)
json_loads(body) ==
  IF ~body.wellformed THEN [ok |-> FALSE, isDict |-> FALSE, dict |-> EmptyDict]
  ELSE IF body.top = "object"
       THEN [ok |-> TRUE, isDict |-> TRUE, dict |-> members_to_dict(body.members)]
       ELSE [ok |-> TRUE, isDict |-> FALSE, dict |-> EmptyDict]
NoData == [ok |-> FALSE, isDict |-> FALSE, dict |-> EmptyDict]

\* ------------------------------------------------------------------ state
VARIABLES
  cached_data,  \* module global: None or a reference into heap
  heap,         \* sequence of dict objects; a reference is an index
  repos,        \* what config.get_repos() returns right now
  pc,           \* per thread: position inside load_repo_data, or "idle"
  urls,         \* per thread local: urls
  ret,          \* per thread local: reference to the accumulator
  i,            \* per thread: position of the for loop in urls
  response,     \* per thread local: the response object, [live, body]
  data,         \* per thread local: result of json.loads
  result,       \* per thread: outcome of the last finished call
  obs,          \* per thread history of the current/last call
  nget,         \* GETs issued so far
  nconf,        \* reads of config.get_repos() so far
  calls,        \* calls of load_repo_data() started so far
  failed,       \* calls that raised so far
  stores,       \* log of the assignments to cached_data so far
  discarded,    \* accumulator contents dropped by the last raising call
  leaked        \* per thread: streams of the current/last call that lost
                \* their last reference without having been closed

vars == <<cached_data, heap, repos, pc, urls, ret, i, response, data, result,
          obs, nget, nconf, calls, failed, stores, discarded, leaked>>

NoResponse == [live |-> FALSE, body |-> NoBody]
NoResult == [kind |-> "none", obj |-> None, err |-> ""]
NoObs == [urls |-> <<>>, gets |-> <<>>, docs |-> <<>>, hit |-> FALSE]

Init ==
  /\ cached_data = None
  /\ heap = <<>>
  /\ repos \in RepoLists
  /\ pc = [t \in Threads |-> "idle"]
  /\ urls = [t \in Threads |-> <<>>]
  /\ ret = [t \in Threads |-> None]
  /\ i = [t \in Threads |-> 0]
  /\ response = [t \in Threads |-> NoResponse]
  /\ data = [t \in Threads |-> NoData]
  /\ result = [t \in Threads |-> NoResult]
  /\ obs = [t \in Threads |-> NoObs]
  /\ nget = 0
  /\ nconf = 0
  /\ calls = 0
  /\ failed = 0
  /\ stores = <<>>
  /\ discarded = EmptyDict
  /\ leaked = [t \in Threads |-> 0]

\* ------------------------------------------------------- leaving a call
\* The frame's locals go away when the call returns or raises.  Nothing has
\* closed the response the frame still refers to.
DropLocals(t) ==
  /\ urls' = [urls EXCEPT ![t] = <<>>]
  /\ ret' = [ret EXCEPT ![t] = None]
  /\ i' = [i EXCEPT ![t] = 0]
  /\ response' = [response EXCEPT ![t] = NoResponse]
  /\ data' = [data EXCEPT ![t] = NoData]
  /\ leaked' = [leaked EXCEPT ![t] = IF response[t].live THEN @ + 1 ELSE @]

\* Variant: the partial accumulator is stored in the cache before the
\* exception leaves the call.
RaiseKeepPartial(t, err) ==
  /\ pc' = [pc EXCEPT ![t] = "idle"]
  /\ result' = [result EXCEPT ![t] = [kind |-> "raised", obj |-> None, err |-> err]]
  /\ failed' = failed + 1
  /\ discarded' = heap[ret[t]]
  /\ cached_data' = ret[t]
  /\ stores' = Append(stores, [obj |-> ret[t], urls |-> obs[t].urls,
                                gets |-> obs[t].gets, docs |-> obs[t].docs])
  /\ DropLocals(t)
  /\ UNCHANGED heap

\* An exception leaves load_repo_data: nothing catches it, cached_data is
\* not assigned and the accumulator becomes unreachable.     (load.py:22-26)
Raise(t, err) ==
  /\ pc' = [pc EXCEPT ![t] = "idle"]
  /\ result' = [result EXCEPT ![t] = [kind |-> "raised", obj |-> None, err |-> err]]
  /\ failed' = failed + 1
  /\ discarded' = heap[ret[t]]
  /\ heap' = [heap EXCEPT ![ret[t]] = EmptyDict]
  /\ DropLocals(t)
  /\ UNCHANGED <<cached_data, stores>>

\* Variant: the test is on truthiness (if cached_data:), so an empty dict
\* counts as unpopulated.
CacheTruthy == cached_data # None /\ heap[cached_data] # EmptyDict

\* cached_data != None                                       (load.py:13)
CachePopulated == cached_data # None

\* ---------------------------------------------------------------- steps
\* Variant: a hit returns a copy of the cached mapping (dict(cached_data)).
CheckCopy(t) ==
  /\ pc[t] = "idle"
  /\ calls < MaxCalls
  /\ calls' = calls + 1
  /\ leaked' = [leaked EXCEPT ![t] = 0]
  /\ IF CachePopulated
     THEN /\ heap' = Append(heap, heap[cached_data])
          /\ result' = [result EXCEPT ![t] =
                          [kind |-> "returned", obj |-> Len(heap) + 1, err |-> ""]]
          /\ obs' = [obs EXCEPT ![t] = [NoObs EXCEPT !.hit = TRUE]]
          /\ UNCHANGED pc
     ELSE /\ pc' = [pc EXCEPT ![t] = "get_repos"]
          /\ result' = [result EXCEPT ![t] = NoResult]
          /\ obs' = [obs EXCEPT ![t] = NoObs]
          /\ UNCHANGED heap
  /\ UNCHANGED <<cached_data, repos, urls, ret, i, response, data,
                 nget, nconf, failed, stores, discarded>>

\* Variant: a hit returns the mapping of the first store, not what the
\* cache holds now.
CheckFirstStore(t) ==
  /\ pc[t] = "idle"
  /\ calls < MaxCalls
  /\ calls' = calls + 1
  /\ leaked' = [leaked EXCEPT ![t] = 0]
  /\ IF CachePopulated
     THEN /\ result' = [result EXCEPT ![t] =
                          [kind |-> "returned", obj |-> stores[1].obj, err |-> ""]]
          /\ obs' = [obs EXCEPT ![t] = [NoObs EXCEPT !.hit = TRUE]]
          /\ UNCHANGED pc
     ELSE /\ pc' = [pc EXCEPT ![t] = "get_repos"]
          /\ result' = [result EXCEPT ![t] = NoResult]
          /\ obs' = [obs EXCEPT ![t] = NoObs]
  /\ UNCHANGED <<cached_data, heap, repos, urls, ret, i, response, data,
                 nget, nconf, failed, stores, discarded>>

\* if cached_data!=None: return cached_data                  (load.py:13-14)
Check(t) ==
  /\ pc[t] = "idle"
  /\ calls < MaxCalls
  /\ calls' = calls + 1
  /\ leaked' = [leaked EXCEPT ![t] = 0]
  /\ IF CachePopulated
     THEN /\ result' = [result EXCEPT ![t] =
                          [kind |-> "returned", obj |-> cached_data, err |-> ""]]
          /\ obs' = [obs EXCEPT ![t] = [NoObs EXCEPT !.hit = TRUE]]
          /\ UNCHANGED pc
     ELSE /\ pc' = [pc EXCEPT ![t] = "get_repos"]
          /\ result' = [result EXCEPT ![t] = NoResult]
          /\ obs' = [obs EXCEPT ![t] = NoObs]
  /\ UNCHANGED <<cached_data, heap, repos, urls, ret, i, response, data,
                 nget, nconf, failed, stores, discarded>>

\* Variant: the accumulator is not fresh, it still holds what the last
\* raising call had merged.
GetReposStale(t) ==
  /\ pc[t] = "get_repos"
  /\ urls' = [urls EXCEPT ![t] = repos]
  /\ nconf' = nconf + 1
  /\ heap' = Append(heap, discarded)
  /\ ret' = [ret EXCEPT ![t] = Len(heap) + 1]
  /\ i' = [i EXCEPT ![t] = 1]
  /\ obs' = [obs EXCEPT ![t].urls = repos]
  /\ pc' = [pc EXCEPT ![t] = "for"]
  /\ UNCHANGED <<cached_data, repos, response, data, result, nget, calls,
                 failed, stores, discarded, leaked>>

\* Variant: the loop runs over the distinct URLs only.
RECURSIVE Dedup(_)
Dedup(l) ==
  IF l = <<>> THEN <<>>
  ELSE LET front == Dedup(SubSeq(l, 1, Len(l) - 1))
       IN IF \E j \in 1..Len(front) : front[j] = l[Len(l)]
          THEN front ELSE Append(front, l[Len(l)])
GetReposDedup(t) ==
  /\ pc[t] = "get_repos"
  /\ urls' = [urls EXCEPT ![t] = Dedup(repos)]
  /\ nconf' = nconf + 1
  /\ heap' = Append(heap, EmptyDict)
  /\ ret' = [ret EXCEPT ![t] = Len(heap) + 1]
  /\ i' = [i EXCEPT ![t] = 1]
  /\ obs' = [obs EXCEPT ![t].urls = repos]
  /\ pc' = [pc EXCEPT ![t] = "for"]
  /\ UNCHANGED <<cached_data, repos, response, data, result, nget, calls,
                 failed, stores, discarded, leaked>>

\* Variant: the accumulator is one module-level dict that every call
\* merges into.
GetReposShared(t) ==
  /\ pc[t] = "get_repos"
  /\ urls' = [urls EXCEPT ![t] = repos]
  /\ nconf' = nconf + 1
  /\ heap' = IF heap = <<>> THEN Append(heap, EmptyDict) ELSE heap
  /\ ret' = [ret EXCEPT ![t] = 1]
  /\ i' = [i EXCEPT ![t] = 1]
  /\ obs' = [obs EXCEPT ![t].urls = repos]
  /\ pc' = [pc EXCEPT ![t] = "for"]
  /\ UNCHANGED <<cached_data, repos, response, data, result, nget, calls,
                 failed, stores, discarded, leaked>>

\* Variant: the loop runs over the sorted list, not over the list as read.
SortedUrls(l) ==
  SelectSeq(l, LAMBDA u : u = "A") \o SelectSeq(l, LAMBDA u : u # "A")
GetReposSorted(t) ==
  /\ pc[t] = "get_repos"
  /\ urls' = [urls EXCEPT ![t] = SortedUrls(repos)]
  /\ nconf' = nconf + 1
  /\ heap' = Append(heap, EmptyDict)
  /\ ret' = [ret EXCEPT ![t] = Len(heap) + 1]
  /\ i' = [i EXCEPT ![t] = 1]
  /\ obs' = [obs EXCEPT ![t].urls = repos]
  /\ pc' = [pc EXCEPT ![t] = "for"]
  /\ UNCHANGED <<cached_data, repos, response, data, result, nget, calls,
                 failed, stores, discarded, leaked>>

\* urls = config.get_repos(); ret = {}                       (load.py:16-17)
GetRepos(t) ==
  /\ pc[t] = "get_repos"
  /\ urls' = [urls EXCEPT ![t] = repos]
  /\ nconf' = nconf + 1
  /\ heap' = Append(heap, EmptyDict)
  /\ ret' = [ret EXCEPT ![t] = Len(heap) + 1]
  /\ i' = [i EXCEPT ![t] = 1]
  /\ obs' = [obs EXCEPT ![t].urls = repos]
  /\ pc' = [pc EXCEPT ![t] = "for"]
  /\ UNCHANGED <<cached_data, repos, response, data, result, nget, calls,
                 failed, stores, discarded, leaked>>

\* for url in urls:                                          (load.py:22)
For(t) ==
  /\ pc[t] = "for"
  /\ pc' = [pc EXCEPT ![t] = IF i[t] <= Len(urls[t]) THEN "urlopen" ELSE "store"]
  /\ UNCHANGED <<cached_data, heap, repos, urls, ret, i, response, data, result,
                 obs, nget, nconf, calls, failed, stores, discarded, leaked>>

\* req = urllib2.Request(url); response = urllib2.urlopen(req)  (load.py:23-24)
\* The GET either fails in the transport or opens a stream over some body;
\* binding response drops the reference to the previous response.
Urlopen(t) ==
  /\ pc[t] = "urlopen"
  /\ nget' = nget + 1
  /\ obs' = [obs EXCEPT ![t].gets = Append(@, urls[t][i[t]])]
  /\ \/ Raise(t, "TransportError")
     \/ \E b \in Bodies :
          /\ response' = [response EXCEPT ![t] = [live |-> TRUE, body |-> b]]
          /\ leaked' = [leaked EXCEPT ![t] = IF response[t].live THEN @ + 1 ELSE @]
          /\ pc' = [pc EXCEPT ![t] = "loads"]
          /\ UNCHANGED <<cached_data, heap, urls, ret, i, data, result,
                         failed, stores, discarded>>
  /\ UNCHANGED <<repos, nconf, calls>>

\* Variant: a body that does not parse is skipped and the loop goes on.
LoadsSkip(t) ==
  /\ pc[t] = "loads"
  /\ LET parsed == json_loads(response[t].body) IN
       IF parsed.ok
       THEN /\ data' = [data EXCEPT ![t] = parsed]
            /\ pc' = [pc EXCEPT ![t] = "update"]
            /\ UNCHANGED i
       ELSE /\ i' = [i EXCEPT ![t] = @ + 1]
            /\ pc' = [pc EXCEPT ![t] = "for"]
            /\ UNCHANGED data
  /\ UNCHANGED <<cached_data, heap, urls, ret, response, result, failed, stores,
                 discarded, leaked, repos, obs, nget, nconf, calls>>

\* data = json.loads(response.read())                        (load.py:25)
Loads(t) ==
  /\ pc[t] = "loads"
  /\ LET parsed == json_loads(response[t].body) IN
       IF parsed.ok
       THEN /\ data' = [data EXCEPT ![t] = parsed]
            /\ pc' = [pc EXCEPT ![t] = "update"]
            /\ UNCHANGED <<cached_data, heap, urls, ret, i, response, result,
                           failed, stores, discarded, leaked>>
       ELSE Raise(t, "ParseError")
  /\ UNCHANGED <<repos, obs, nget, nconf, calls>>

\* ret.update(data)                                          (load.py:26)
Update(t) ==
  /\ pc[t] = "update"
  /\ IF data[t].isDict
     THEN /\ heap' = [heap EXCEPT ![ret[t]] = dict_update(@, data[t].dict)]
          /\ obs' = [obs EXCEPT ![t].docs = Append(@, data[t].dict)]
          /\ i' = [i EXCEPT ![t] = @ + 1]
          /\ pc' = [pc EXCEPT ![t] = "for"]
          /\ UNCHANGED <<cached_data, urls, ret, response, data, result,
                         failed, stores, discarded, leaked>>
     ELSE /\ Raise(t, "TypeError")
          /\ UNCHANGED obs
  /\ UNCHANGED <<repos, nget, nconf, calls>>

\* Variant: only a non-empty result is cached (if ret: cached_data = ret).
StoreIfNonEmpty(t) ==
  /\ pc[t] = "store"
  /\ IF heap[ret[t]] # EmptyDict
     THEN /\ cached_data' = ret[t]
          /\ stores' = Append(stores, [obj |-> ret[t], urls |-> obs[t].urls,
                                        gets |-> obs[t].gets, docs |-> obs[t].docs])
     ELSE UNCHANGED <<cached_data, stores>>
  /\ result' = [result EXCEPT ![t] = [kind |-> "returned", obj |-> ret[t], err |-> ""]]
  /\ pc' = [pc EXCEPT ![t] = "idle"]
  /\ DropLocals(t)
  /\ UNCHANGED <<heap, repos, obs, nget, nconf, calls, failed, discarded>>

\* Variant: without the global declaration the assignment binds a local and
\* the module's cached_data is never set.
StoreLocalOnly(t) ==
  /\ pc[t] = "store"
  /\ result' = [result EXCEPT ![t] = [kind |-> "returned", obj |-> ret[t], err |-> ""]]
  /\ pc' = [pc EXCEPT ![t] = "idle"]
  /\ DropLocals(t)
  /\ UNCHANGED <<cached_data, stores, heap, repos, obs, nget, nconf, calls,
                 failed, discarded>>

\* cached_data = ret; return ret                             (load.py:28-29)
Store(t) ==
  /\ pc[t] = "store"
  /\ cached_data' = ret[t]
  /\ stores' = Append(stores, [obj |-> ret[t], urls |-> obs[t].urls,
                                gets |-> obs[t].gets, docs |-> obs[t].docs])
  /\ result' = [result EXCEPT ![t] = [kind |-> "returned", obj |-> ret[t], err |-> ""]]
  /\ pc' = [pc EXCEPT ![t] = "idle"]
  /\ DropLocals(t)
  /\ UNCHANGED <<heap, repos, obs, nget, nconf, calls, failed, discarded>>

\* ---------------------------------------------------------- environment
\* The configuration provider's list changes.
SetRepos ==
  /\ \E l \in RepoLists : l # repos /\ repos' = l
  /\ UNCHANGED <<cached_data, heap, pc, urls, ret, i, response, data, result,
                 obs, nget, nconf, calls, failed, stores, discarded, leaked>>

\* The code never calls response.close(); a stream is released only if the
\* interpreter finalises the response object once nothing refers to it.
Finalize(t) ==
  /\ leaked[t] > 0
  /\ leaked' = [leaked EXCEPT ![t] = @ - 1]
  /\ UNCHANGED <<cached_data, heap, repos, pc, urls, ret, i, response, data,
                 result, obs, nget, nconf, calls, failed, stores, discarded>>

\* --------------------------------------------------------- specification
\* Single-threaded use (the module has no lock and starts no thread): one
\* thread of control makes the calls, one after the other.
Main == CHOOSE t \in Threads : \A u \in Threads : t <= u

\* Nothing else runs while the one thread is inside a call: the provider's
\* list changes between calls.
Idle == \A t \in Threads : pc[t] = "idle"

Next ==
  \/ Check(Main)
  \/ GetRepos(Main)
  \/ For(Main)
  \/ Urlopen(Main)
  \/ Loads(Main)
  \/ Update(Main)
  \/ Store(Main)
  \/ Idle /\ SetRepos
  \/ Finalize(Main)

Spec == Init /\ [][Next]_vars

\* Interleaved use: several threads call load_repo_data() and a thread
\* switch may fall between any two steps.  The runs are kept small: the
\* provider's list stays the one of the initial state, the servers answer
\* with one of two documents (or the transport fails), and finalisation of
\* dropped streams is left out.
ConcBodies ==
  { ObjectBody(<<Member("x", Num(1))>>),
    ObjectBody(<<Member("x", Num(2)), Member("y", Num(3))>>) }
ConcStep(t) ==
  \/ Check(t)
  \/ GetRepos(t)
  \/ For(t)
  \/ Urlopen(t) /\ (response'[t].live => response'[t].body \in ConcBodies)
  \/ Loads(t)
  \/ Update(t)
  \/ Store(t)

NextConc == \E t \in Threads : ConcStep(t)

SpecConc == Init /\ [][NextConc]_vars

\* A caller changes the mapping it was handed, in place: it adds the key "z"
\* with the number of calls made so far.  load_repo_data returns the dict
\* itself (return cached_data, return ret), so this is a write to that
\* heap object.                                        (load.py:14, 29)
Mutate(t) ==
  /\ pc[t] = "idle"
  /\ result[t].kind = "returned"
  /\ "z" \notin DOMAIN heap[result[t].obj]
  /\ heap' = [heap EXCEPT ![result[t].obj] =
                dict_update(@, [k \in {"z"} |-> Num(calls)])]
  /\ UNCHANGED <<cached_data, repos, pc, urls, ret, i, response, data, result,
                 obs, nget, nconf, calls, failed, stores, discarded, leaked>>

\* Sequential calls by a caller that may modify what it got back; the
\* provider's list stays the one of the initial state and finalisation of
\* dropped streams is left out.
NextMut ==
  \/ Check(Main)
  \/ GetRepos(Main)
  \/ For(Main)
  \/ Urlopen(Main)
  \/ Loads(Main)
  \/ Update(Main)
  \/ Store(Main)
  \/ Mutate(Main)

SpecMut == Init /\ [][NextMut]_vars

\* ------------------------------------------------------------ properties
\* The merge of a list of documents, stated key by key: the keys are the
\* union of the documents' keys and each key has the value of the last
\* document that contains it.
LastWith(docs, k) ==
  CHOOSE j \in 1..Len(docs) :
    /\ k \in DOMAIN docs[j]
    /\ \A m \in (j + 1)..Len(docs) : k \notin DOMAIN docs[m]
IsMergeOf(r, docs) ==
  /\ DOMAIN r = UNION {DOMAIN docs[j] : j \in 1..Len(docs)}
  /\ \A k \in DOMAIN r : r[k] = docs[LastWith(docs, k)][k]

\* Thread t's last call has finished, found the cache unpopulated and returned.
MissReturned(t) ==
  pc[t] = "idle" /\ result[t].kind = "returned" /\ ~obs[t].hit
\* Thread t's last call has finished and was served from the cache.
HitReturned(t) ==
  pc[t] = "idle" /\ result[t].kind = "returned" /\ obs[t].hit
InCall(t) == pc[t] \notin {"idle", "get_repos"}
\* This step is the cache check of a new call.
CallStarts == calls' = calls + 1

\* C1: a call made while the cache is unpopulated, all of whose URLs return
\* JSON objects, returns a mapping whose keys are the union of the documents'
\* keys, each mapped to the value of the last document in list order that
\* has the key.
C1_MergeLastWins ==
  \A t \in Threads :
    MissReturned(t) =>
      /\ Len(obs[t].docs) = Len(obs[t].urls)
      /\ IsMergeOf(heap[result[t].obj], obs[t].docs)
C1_Witness ==
  \E t \in Threads :
    /\ MissReturned(t)
    /\ obs[t].urls = <<"A", "B">>
    /\ obs[t].docs = << [k \in {"x"} |-> Num(1)],
                        [k \in {"x", "y"} |-> IF k = "x" THEN Num(2) ELSE Num(3)] >>
    /\ heap[result[t].obj] = [k \in {"x", "y"} |-> IF k = "x" THEN Num(2) ELSE Num(3)]

\* C2: once the cache is populated, every call returns the cached mapping
\* itself in one step, issues no GET, does not read the configuration
\* provider and leaves the cache and its contents unchanged.
C2_HitIsPure ==
  [][(cached_data # None /\ CallStarts) =>
       /\ nget' = nget
       /\ nconf' = nconf
       /\ cached_data' = cached_data
       /\ heap' = heap
       /\ stores' = stores
       /\ pc' = pc
       /\ \E t \in Threads :
            /\ result'[t] = [kind |-> "returned", obj |-> cached_data, err |-> ""]
            /\ obs'[t].hit]_vars
C2_Witness ==
  \E t \in Threads :
    /\ HitReturned(t)
    /\ calls = 3
    /\ result[t].obj = cached_data
    /\ Len(stores) = 1
    /\ nget = Len(stores[1].urls)
    /\ nget > 0

\* C3: the cache is either unpopulated or holds the merge of all URLs of the
\* list of one call whose every fetch and parse succeeded; a call that
\* raised left it unpopulated; it never holds the merge of a prefix only.
C3_CacheAllOrNothing ==
  /\ (cached_data = None) = (stores = <<>>)
  /\ cached_data # None =>
       LET s == stores[Len(stores)] IN
         /\ cached_data = s.obj
         /\ s.gets = s.urls
         /\ Len(s.docs) = Len(s.urls)
         /\ IsMergeOf(heap[cached_data], s.docs)
  /\ \A t \in Threads :
       (pc[t] = "idle" /\ result[t].kind = "raised") => cached_data = None
C3_Witness ==
  \E t \in Threads :
    /\ pc[t] = "idle"
    /\ result[t].kind = "raised"
    /\ Len(obs[t].urls) = 2
    /\ Len(obs[t].docs) = 1
    /\ discarded # EmptyDict
    /\ cached_data = None

\* C4: after failed calls the next call runs the full cycle again: the cache
\* check misses, the accumulator starts empty, the GETs start again at the
\* first URL, and at every point the accumulator (and in the end the result)
\* holds exactly the documents fetched in this call.
C4_RetryFromScratch ==
  /\ [](\A t \in Threads :
          failed > 0 =>
            /\ InCall(t) =>
                 /\ obs[t].gets = SubSeq(urls[t], 1, Len(obs[t].gets))
                 /\ IsMergeOf(heap[ret[t]], obs[t].docs)
            /\ MissReturned(t) =>
                 /\ obs[t].gets = obs[t].urls
                 /\ IsMergeOf(heap[result[t].obj], obs[t].docs))
  /\ [][/\ (failed = calls /\ calls > 0 /\ CallStarts) =>
             \E t \in Threads : pc[t] = "idle" /\ pc'[t] = "get_repos"
        /\ \A t \in Threads :
             (failed > 0 /\ pc[t] = "get_repos" /\ pc'[t] # "get_repos") =>
               /\ i'[t] = 1
               /\ obs'[t].gets = <<>>
               /\ heap'[ret'[t]] = EmptyDict]_vars
C4_Witness ==
  \E t \in Threads :
    /\ MissReturned(t)
    /\ failed = 2
    /\ Len(obs[t].urls) = 2
    /\ "y" \in DOMAIN discarded
    /\ "y" \notin DOMAIN heap[result[t].obj]

\* C5: a finished call has either returned the full merged mapping or raised;
\* a failing GET raises a transport failure and a malformed body a parse
\* failure, in the step where it happens; the failure at position i is the
\* call's last GET and no mapping is returned.
C5_ReturnOrRaise ==
  /\ [](\A t \in Threads :
          (pc[t] = "idle" /\ result[t].kind # "none") =>
            \/ /\ result[t].kind = "returned"
               /\ result[t].obj # None
               /\ result[t].err = ""
               /\ \/ obs[t].hit
                  \/ /\ Len(obs[t].docs) = Len(obs[t].urls)
                     /\ IsMergeOf(heap[result[t].obj], obs[t].docs)
            \/ /\ result[t].kind = "raised"
               /\ result[t].obj = None
               /\ result[t].err \in {"TransportError", "ParseError", "TypeError"}
               /\ Len(obs[t].gets) >= 1
               /\ obs[t].gets = SubSeq(obs[t].urls, 1, Len(obs[t].gets))
               /\ Len(obs[t].docs) = Len(obs[t].gets) - 1)
  /\ [][\A t \in Threads :
          /\ (pc[t] = "urlopen" /\ pc'[t] \notin {"urlopen", "loads"}) =>
               /\ pc'[t] = "idle"
               /\ result'[t] = [kind |-> "raised", obj |-> None, err |-> "TransportError"]
          /\ (pc[t] = "loads" /\ pc'[t] # "loads" /\ ~response[t].body.wellformed) =>
               /\ pc'[t] = "idle"
               /\ result'[t] = [kind |-> "raised", obj |-> None, err |-> "ParseError"]
               /\ nget' = nget]_vars
C5_Witness ==
  \E t \in Threads :
    /\ pc[t] = "idle"
    /\ result[t] = [kind |-> "raised", obj |-> None, err |-> "ParseError"]
    /\ Len(obs[t].urls) = 2
    /\ Len(obs[t].gets) = 1
    /\ nget = 1

\* C6: with an empty URL list the call returns an empty mapping without any
\* GET and stores it; from then on every call is a hit that returns the same
\* empty mapping without fetching or reading the list, whatever the list is.
C6_EmptyListPopulates ==
  /\ [](\A t \in Threads :
          (MissReturned(t) /\ obs[t].urls = <<>>) =>
            /\ heap[result[t].obj] = EmptyDict
            /\ obs[t].gets = <<>>
            /\ cached_data # None
            /\ cached_data = result[t].obj)
  /\ [][(cached_data # None /\ heap[cached_data] = EmptyDict /\ CallStarts) =>
          /\ nget' = nget
          /\ nconf' = nconf
          /\ cached_data' = cached_data
          /\ heap' = heap
          /\ pc' = pc
          /\ \E t \in Threads :
               result'[t] = [kind |-> "returned", obj |-> cached_data, err |-> ""]]_vars
C6_Witness ==
  \E t \in Threads :
    /\ HitReturned(t)
    /\ heap[result[t].obj] = EmptyDict
    /\ repos = <<"A", "B">>
    /\ nget = 0
    /\ nconf = 1

\* C7: the cache starts unpopulated, is assigned once, by the call that
\* completes a full cycle (at its store step), and is never changed again.
C7_AssignedOnce ==
  /\ cached_data = None
  /\ [][/\ cached_data # None => cached_data' = cached_data
        /\ cached_data' # cached_data =>
             \E t \in Threads :
               pc[t] = "store" /\ pc'[t] = "idle" /\ result'[t].obj = cached_data']_vars
  /\ [](/\ Len(stores) <= 1
        /\ (cached_data # None) = (Len(stores) = 1)
        /\ \A t \in Threads : MissReturned(t) => cached_data = result[t].obj)
C7_Witness ==
  \E t \in Threads :
    /\ HitReturned(t)
    /\ calls = 3
    /\ failed = 1
    /\ Len(stores) = 1
    /\ result[t].obj = stores[1].obj

\* C8: inside a call the GETs follow the URL list, one per entry, duplicates
\* included; a GET is issued only when every earlier response has been
\* parsed and merged; a successful call has issued exactly len(urls) GETs.
C8_SequentialGets ==
  \A t \in Threads :
    /\ InCall(t) =>
         /\ obs[t].urls = urls[t]
         /\ obs[t].gets = SubSeq(urls[t], 1, Len(obs[t].gets))
         /\ Len(obs[t].docs) <= Len(obs[t].gets)
         /\ Len(obs[t].gets) <= Len(obs[t].docs) + 1
         /\ pc[t] = "urlopen" =>
              /\ Len(obs[t].docs) = Len(obs[t].gets)
              /\ i[t] = Len(obs[t].gets) + 1
              /\ IsMergeOf(heap[ret[t]], obs[t].docs)
    /\ MissReturned(t) =>
         /\ obs[t].gets = obs[t].urls
         /\ Len(obs[t].gets) = Len(obs[t].urls)
C8_Witness ==
  \E t \in Threads :
    /\ MissReturned(t)
    /\ obs[t].urls = <<"A", "A">>
    /\ obs[t].gets = <<"A", "A">>
    /\ nget = 2

\* C9: no response stream opened by a call is still open when the call has
\* returned or raised.
C9_StreamsClosedAtExit ==
  \A t \in Threads : pc[t] = "idle" => leaked[t] = 0

\* C10: the merge is shallow: for a key shared by two documents whose values
\* are both objects the result has the later value and none of the nested
\* keys that only the earlier value had; the collision does not make the
\* call fail.
C10_ShallowMerge ==
  /\ [](\A t \in Threads :
          MissReturned(t) =>
            LET docs == obs[t].docs
                r == heap[result[t].obj]
            IN \A a, b \in 1..Len(docs) :
                 \A k \in DOMAIN docs[a] \cap DOMAIN docs[b] :
                   (a < b /\ docs[a][k].isObj /\ docs[b][k].isObj) =>
                     LET last == docs[LastWith(docs, k)][k]
                     IN /\ r[k] = last
                        /\ \A nk \in docs[a][k].o : nk \notin last.o => nk \notin r[k].o)
  /\ [][\A t \in Threads :
          (/\ pc[t] = "update"
           /\ pc'[t] # "update"
           /\ data[t].isDict
           /\ DOMAIN data[t].dict \cap DOMAIN heap[ret[t]] # {}) =>
            /\ pc'[t] = "for"
            /\ failed' = failed
            /\ result'[t].kind # "raised"]_vars
C10_Witness ==
  \E t \in Threads :
    /\ MissReturned(t)
    /\ obs[t].docs = << [k \in {"x"} |-> Obj({<<"a", 1>>})],
                        [k \in {"x"} |-> Obj({<<"b", 2>>})] >>
    /\ heap[result[t].obj] = [k \in {"x"} |-> Obj({<<"b", 2>>})]

\* C11: the URL list is not cached: every call that finds the cache
\* unpopulated reads the provider's list once, before its first GET, and
\* fetches that list in that order; after a failed call the next call
\* fetches the list as it is then.
C11_ListReadPerCall ==
  /\ [](/\ nconf = failed + Len(stores) + Cardinality({t \in Threads : InCall(t)})
        /\ \A t \in Threads :
             /\ InCall(t) =>
                  /\ urls[t] = obs[t].urls
                  /\ obs[t].gets = SubSeq(urls[t], 1, Len(obs[t].gets))
             /\ MissReturned(t) => obs[t].gets = obs[t].urls
             /\ (pc[t] = "idle" /\ result[t].kind = "raised") =>
                  obs[t].gets = SubSeq(obs[t].urls, 1, Len(obs[t].gets)))
  /\ [][/\ nconf' # nconf => \E t \in Threads : pc[t] = "get_repos" /\ pc'[t] = "for"
        /\ \A t \in Threads :
             (pc[t] = "get_repos" /\ pc'[t] # "get_repos") =>
               /\ urls'[t] = repos
               /\ nconf' = nconf + 1
               /\ nget' = nget
               /\ obs'[t].gets = <<>>]_vars
C11_Witness ==
  \E t \in Threads :
    /\ MissReturned(t)
    /\ calls = 2
    /\ failed = 1
    /\ nget = 3
    /\ obs[t].urls = <<"B">>
    /\ obs[t].gets = <<"B">>

\* C12: when calls interleave, each call merges into an accumulator of its
\* own; the cache is unpopulated or the complete merge of the documents one
\* call fetched, never a partial merge or a mixture of two calls' documents;
\* a call that raises leaves the cache and the cached mapping as they are.
C12_PrivateAccumulators ==
  /\ [](/\ \A t, u \in Threads :
             (t # u /\ InCall(t) /\ InCall(u)) => ret[t] # ret[u]
        /\ \A t \in Threads :
             InCall(t) =>
               /\ ret[t] # cached_data
               /\ IsMergeOf(heap[ret[t]], obs[t].docs)
        /\ (cached_data = None) = (stores = <<>>)
        /\ cached_data # None => cached_data = stores[Len(stores)].obj
        /\ \A j \in 1..Len(stores) :
             /\ stores[j].gets = stores[j].urls
             /\ Len(stores[j].docs) = Len(stores[j].urls)
             /\ IsMergeOf(heap[stores[j].obj], stores[j].docs))
  /\ [][\A t \in Threads :
          (pc[t] # "idle" /\ pc'[t] = "idle" /\ result'[t].kind = "raised") =>
            /\ cached_data' = cached_data
            /\ cached_data # None => heap'[cached_data] = heap[cached_data]]_vars
C12_Witness ==
  \E t, u \in Threads :
    /\ t # u
    /\ MissReturned(u)
    /\ cached_data = result[u].obj
    /\ Len(obs[u].docs) = 2
    /\ pc[t] = "urlopen"
    /\ Len(obs[t].docs) = 1
    /\ heap[ret[t]] # heap[cached_data]
    /\ DOMAIN heap[cached_data] = {"x"}
    /\ DOMAIN heap[ret[t]] = {"x", "y"}

\* C13: when calls interleave, a call whose cache check comes after a store
\* issues no GET and returns what the cache holds at that moment; only calls
\* that passed the check before the first store fetch, so the GETs issued
\* are at most (calls that read the list) x (length of the list).
C13_FetchOnlyBeforeFirstStore ==
  /\ [](/\ nget <= nconf * Len(repos)
        /\ nconf <= calls
        /\ \A t \in Threads : obs[t].hit => obs[t].gets = <<>>)
  /\ [][/\ (cached_data # None /\ CallStarts) =>
             /\ nget' = nget
             /\ nconf' = nconf
             /\ pc' = pc
             /\ cached_data' = cached_data
             /\ \E t \in Threads :
                  /\ result'[t] = [kind |-> "returned", obj |-> cached_data, err |-> ""]
                  /\ obs'[t].hit
        /\ \A t \in Threads :
             (pc[t] = "idle" /\ pc'[t] = "get_repos") => stores = <<>>
        /\ nget' # nget =>
             /\ nget' = nget + 1
             /\ \E t \in Threads : pc[t] = "urlopen" /\ ~obs[t].hit]_vars
C13_Witness ==
  \E t \in Threads :
    /\ HitReturned(t)
    /\ calls = 3
    /\ Len(stores) = 2
    /\ stores[1].obj # stores[2].obj
    /\ result[t].obj = stores[2].obj
    /\ Len(repos) = 2
    /\ nget = 4

\* C14: the mapping is never copied: the populating call and every later
\* hit return the cache object itself, one and the same object, no dict is
\* allocated besides the accumulators, and what a caller changes in a
\* returned mapping is what every later call returns.
C14_ReturnsCacheObject ==
  /\ [](/\ Len(heap) = nconf
        /\ \A t \in Threads :
             (pc[t] = "idle" /\ result[t].kind = "returned") =>
               /\ cached_data # None
               /\ result[t].obj = cached_data
               /\ result[t].obj = stores[1].obj
               /\ heap[result[t].obj] = heap[cached_data])
  /\ [][(cached_data # None /\ CallStarts) =>
          /\ Len(heap') = Len(heap)
          /\ heap' = heap
          /\ \E t \in Threads :
               /\ result'[t].kind = "returned"
               /\ result'[t].obj = cached_data]_vars
C14_Witness ==
  \E t \in Threads :
    /\ HitReturned(t)
    /\ calls = 3
    /\ result[t].obj = stores[1].obj
    /\ "z" \in DOMAIN heap[result[t].obj]
    /\ heap[result[t].obj]["z"] = Num(1)
    /\ ~IsMergeOf(heap[cached_data], stores[1].docs)
====
